---- MODULE Spec2Model ----
(***************************************************************************)
(* Product catalogue service: API routes -> ProductUseCases ->             *)
(* ProductRepository over one SQLAlchemy AsyncSession per request, the     *)
(* session being provisioned by get_session / DatabaseClient.session.      *)
(* Requests are handled one at a time.                                     *)
(*                                                                         *)
(* A nullable column value is modelled as a sequence: <<>> is None/NULL    *)
(* and <<v>> is the value v.                                               *)
(***************************************************************************)
EXTENDS Integers, FiniteSets, Sequences, TLC

\* ---------------------------------------------------------------- bounds
\* Total number of requests served in one behaviour.
MaxRequests == 3

\* ------------------------------------------------------ program constants
\* create_async_engine(pool_size=5, max_overflow=10)
pool_size == 5
max_overflow == 10

\* ----------------------------------------------------------------- values
Names == {"Pen", "Ink"}
Descriptions == {"Blue ink"}
Prices == {150, 200}
None == <<>>
Some(v) == <<v>>

Fields == {"name", "description", "price"}

\* product.models.Product: a mapped instance; id 0 stands for an unassigned
\* primary key (a transient instance).
NoId == 0
Product(id, name, description, price) ==
  [id |-> id, name |-> name, description |-> description, price |-> price]
NoProduct == Product(NoId, None, None, None)

\* product.schemas.ProductCreate: the three fields are required.
ProductCreate ==
  [name : Names, description : Descriptions, price : Prices]

\* product.schemas.ProductUpdate: every field is optional; fields_set is the
\* set of fields the caller supplied, an unset field holds its default None.
ProductUpdate ==
  { [fields_set |-> S,
     name |-> IF "name" \in S THEN Some(n) ELSE None,
     description |-> IF "description" \in S THEN Some(d) ELSE None,
     price |-> IF "price" \in S THEN Some(p) ELSE None] :
       S \in SUBSET Fields, n \in Names, d \in Descriptions, p \in Prices }
NoData == [fields_set |-> {}, name |-> None, description |-> None, price |-> None]

\* BaseModel.model_dump(): every field of a ProductCreate, as keyword arguments.
model_dump(data) ==
  [f \in Fields |-> Some(data[f])]

\* BaseModel.model_dump(exclude_unset=True): only the supplied fields.
model_dump_exclude_unset(data) ==
  [f \in data.fields_set |-> data[f]]

\* Product(**kwargs): attributes that get no keyword argument read as None.
ProductFromKwargs(kwargs) ==
  Product(NoId,
          IF "name" \in DOMAIN kwargs THEN kwargs["name"] ELSE None,
          IF "description" \in DOMAIN kwargs THEN kwargs["description"] ELSE None,
          IF "price" \in DOMAIN kwargs THEN kwargs["price"] ELSE None)

\* The unresolved default of the use-case's `session` parameter, the object
\* Depends(get_session), which is what a call that passes no session binds.
DependsMarker == 0

VARIABLES
  store,          \* the products table: a set of rows (committed state)
  nextId,         \* the table's primary-key sequence
  columnsNotNull, \* whether the table enforces NOT NULL on the three columns
  nRequests,      \* requests begun so far
  pool,           \* pool[c]: connections checked out of the pool of client c
  pc,             \* position of the request in flight
  req,            \* the request (op, product_id, data, create)
  client,         \* the DatabaseClient built for the request
  session,        \* the session get_session provisioned
  sessionArg,     \* the object bound to the use-case's `session`
  entity,         \* the Product the use-case built / the repo loaded
  result,         \* what the use-case returned
  exc,            \* the exception in flight, "none" if none
  status,         \* HTTP status of the response, 0 until known
  created,        \* history: the id and payload of every committed create
  updatedIds,     \* history: ids an update was committed for
  deletedIds,     \* history: ids a delete was committed for
  seen            \* history of the store at the request's load
vars == <<store, nextId, columnsNotNull, nRequests, pool, pc, req, client, session,
          sessionArg, entity, result, exc, status, created, updatedIds,
          deletedIds, seen>>


\* ------------------------------------------------------------ the session
\* AsyncSession as the code uses it: how often it was closed and rolled back,
\* whether a transaction is open and whether it holds a pooled connection.
NewSession(id) ==
  [id |-> id, closes |-> 0, rollbacks |-> 0, in_transaction |-> FALSE,
   connection |-> FALSE]
NoSession == NewSession(0)

\* First statement of a unit of work: autobegin, a connection is checked out.
SessionBegin(s) == [s EXCEPT !.in_transaction = TRUE, !.connection = TRUE]
\* session.commit(): the transaction ends and the connection goes back.
SessionCommit(s) == [s EXCEPT !.in_transaction = FALSE, !.connection = FALSE]
\* session.rollback()
SessionRollback(s) ==
  [s EXCEPT !.rollbacks = @ + 1, !.in_transaction = FALSE, !.connection = FALSE]
\* session.close(): releases the session's transaction and connection.
SessionClose(s) ==
  [s EXCEPT !.closes = @ + 1, !.in_transaction = FALSE, !.connection = FALSE]

\* The pool of the request's engine admits pool_size + max_overflow checkouts;
\* a further checkout waits pool_timeout and raises TimeoutError.
CanCheckout ==
  session.connection \/ pool[client] < pool_size + max_overflow

\* pool after the request's session became s.
PoolAfter(s) ==
  [pool EXCEPT ![client] =
     @ - (IF session.connection THEN 1 ELSE 0) + (IF s.connection THEN 1 ELSE 0)]

\* ------------------------------------------------------------- the results
NoResult == [kind |-> "none", product |-> NoProduct, products |-> {}, flag |-> FALSE]
ProductResult(p) == [NoResult EXCEPT !.kind = "product", !.product = p]
AbsentResult == [NoResult EXCEPT !.kind = "absent"]
ListResult(ps) == [NoResult EXCEPT !.kind = "list", !.products = ps]
BoolResult(b) == [NoResult EXCEPT !.kind = "bool", !.flag = b]

NoCreate == [name |-> "", description |-> "", price |-> 0]
NoRequest == [op |-> "none", product_id |-> NoId, data |-> NoData, create |-> NoCreate]
NoSeen == [stored |-> FALSE, untouched |-> FALSE, live |-> {}, row |-> NoProduct,
           store |-> {}]

StoredIds == {p.id : p \in store}
CreatedIds == {c.id : c \in created}

\* What a request observes of the history when it reads the table.
Seen(id) ==
  [stored |-> id \in StoredIds,
   untouched |-> id \notin (updatedIds \cup deletedIds),
   live |-> CreatedIds \ deletedIds,
   row |-> IF id \in StoredIds THEN CHOOSE p \in store : p.id = id ELSE NoProduct,
   store |-> store]

Init ==
  /\ store = {}
  /\ nextId = 1
  /\ columnsNotNull \in BOOLEAN
  /\ nRequests = 0
  /\ pool = <<>>
  /\ pc = "idle"
  /\ req = NoRequest
  /\ client = 0
  /\ session = NoSession
  /\ sessionArg = DependsMarker
  /\ entity = NoProduct
  /\ result = NoResult
  /\ exc = "none"
  /\ status = 0
  /\ created = {}
  /\ updatedIds = {}
  /\ deletedIds = {}
  /\ seen = NoSeen

\* The ids a request may address: every id the sequence has handed out, and
\* the one it hands out next (an id that is not stored yet).
ProductIds == 1..nextId

\* The requests a client can send.
Requests ==
  {[NoRequest EXCEPT !.op = "get_products"]}
  \cup {[NoRequest EXCEPT !.op = o, !.product_id = i] :
          o \in {"get_product", "delete_product"}, i \in ProductIds}
  \cup {[NoRequest EXCEPT !.op = "create_product", !.create = c] : c \in ProductCreate}
  \cup {[NoRequest EXCEPT !.op = "update_product", !.product_id = i, !.data = d] :
          i \in ProductIds, d \in ProductUpdate}

\* get_database_client: a DatabaseClient, and with it an engine and a pool,
\* is built for the call.
get_database_client == nRequests + 1

\* DatabaseClient.session, up to its yield: the factory makes a session.
DatabaseClientSession(c) == NewSession(c)

\* A request arrives (requests are handled one after the other); FastAPI
\* resolves get_product_use_cases and with it
\* get_session(get_database_client()). The route then calls the use-case
\* method; `passed` tells whether the caller hands it the provisioned
\* session or leaves the parameter to its default (as every route does).
Request ==
  /\ pc \in {"idle", "done"}
  /\ nRequests < MaxRequests
  /\ \E r \in Requests, passed \in BOOLEAN :
       LET c == get_database_client
           s == DatabaseClientSession(c)
       IN /\ req' = r
          /\ client' = c
          /\ session' = s
          /\ sessionArg' = IF passed THEN s.id ELSE DependsMarker
  /\ pool' = Append(pool, 0)
  /\ nRequests' = nRequests + 1
  /\ pc' = "use_case"
  /\ entity' = NoProduct
  /\ result' = NoResult
  /\ exc' = "none"
  /\ status' = 0
  /\ seen' = NoSeen
  /\ UNCHANGED <<store, nextId, columnsNotNull, created, updatedIds, deletedIds>>


\* An exception leaves the repository: it travels up to the use-case's
\* `async with session`.
Raise(e) ==
  /\ exc' = e
  /\ pc' = "use_case_exit"

\* ProductUseCases.*: `async with session:` and the Product the method builds.
\* The marker has no __aenter__, so entering the block raises TypeError
\* before any repository call; the exception leaves the use-case.
UseCaseEnter ==
  /\ pc = "use_case"
  /\ IF sessionArg = DependsMarker
       THEN /\ exc' = "TypeError"
            /\ pc' = "handler"
            /\ UNCHANGED entity
       ELSE /\ pc' = "repository"
            /\ entity' = IF req.op = "create_product"
                   THEN ProductFromKwargs(model_dump(req.create))
                 ELSE IF req.op = "update_product"
                   THEN ProductFromKwargs(model_dump_exclude_unset(req.data))
                 ELSE NoProduct
            /\ UNCHANGED exc
  /\ UNCHANGED <<store, nextId, columnsNotNull, nRequests, pool, req, client, session,
                 sessionArg, result, status, created, updatedIds, deletedIds, seen>>

\* A lookup that forgets the primary key and takes whatever row comes first.
SessionGetAnyRow(product_id) ==
  IF store # {} THEN CHOOSE p \in store : TRUE ELSE NoProduct

\* session.get(Product, product_id): the row with that primary key, or None.
SessionGet(product_id) ==
  IF product_id \in StoredIds
    THEN CHOOSE p \in store : p.id = product_id
    ELSE NoProduct

\* A statement is sent on the session: it checks a connection out of the
\* pool unless it holds one.
Execute ==
  /\ session' = SessionBegin(session)
  /\ pool' = PoolAfter(SessionBegin(session))

\* session.commit() succeeded.
Commit ==
  /\ session' = SessionCommit(session)
  /\ pool' = PoolAfter(SessionCommit(session))

\* ProductRepository.get_product
GetProduct ==
  /\ pc = "repository"
  /\ req.op = "get_product"
  /\ IF ~CanCheckout
       THEN /\ Raise("TimeoutError")
            /\ UNCHANGED <<session, pool, result, seen>>
       ELSE /\ Execute
            /\ result' = IF SessionGet(req.product_id) = NoProduct
                   THEN AbsentResult
                   ELSE ProductResult(SessionGet(req.product_id))
            /\ seen' = Seen(req.product_id)
            /\ pc' = "use_case_exit"
            /\ UNCHANGED exc
  /\ UNCHANGED <<store, nextId, columnsNotNull, nRequests, req, client, sessionArg,
                 entity, status, created, updatedIds, deletedIds>>

\* A listing that takes .first() where the code takes .all().
SelectProductsFirst ==
  IF store # {} THEN {CHOOSE p \in store : TRUE} ELSE {}

\* session.execute(select(Product)) ... scalars().all(): every row.
SelectProducts == store

\* ProductRepository.get_products
GetProducts ==
  /\ pc = "repository"
  /\ req.op = "get_products"
  /\ IF ~CanCheckout
       THEN /\ Raise("TimeoutError")
            /\ UNCHANGED <<session, pool, result, seen>>
       ELSE /\ Execute
            /\ result' = ListResult(SelectProducts)
            /\ seen' = Seen(NoId)
            /\ pc' = "use_case_exit"
            /\ UNCHANGED exc
  /\ UNCHANGED <<store, nextId, columnsNotNull, nRequests, req, client, sessionArg,
                 entity, status, created, updatedIds, deletedIds>>

\* A NULL in one of the three columns, which a NOT NULL table rejects.
HasNull(p) == p.name = None \/ p.description = None \/ p.price = None

\* The row the INSERT of a transient product stores: the sequence gives the id.
InsertedRow(p) == [p EXCEPT !.id = nextId]

\* ProductRepository.create_product: session.add(product); session.commit().
\* A ProductCreate holds all three fields, so the INSERT carries no NULL.
CreateProduct ==
  /\ pc = "repository"
  /\ req.op = "create_product"
  /\ IF ~CanCheckout
       THEN /\ Raise("TimeoutError")
            /\ UNCHANGED <<store, nextId, session, pool, entity, created>>
       ELSE /\ store' = store \cup {InsertedRow(entity)}
            /\ nextId' = nextId + 1
            /\ entity' = InsertedRow(entity)
            /\ created' = created \cup {[id |-> nextId, create |-> req.create]}
            /\ Commit
            /\ pc' = "refresh"
            /\ UNCHANGED exc
  /\ UNCHANGED <<columnsNotNull, nRequests, req, client, sessionArg, result, status,
                 updatedIds, deletedIds, seen>>

\* session.refresh(product): reloads the instance by its primary key; the
\* repository then returns the instance.
Refresh ==
  /\ pc = "refresh"
  /\ IF ~CanCheckout
       THEN /\ Raise("TimeoutError")
            /\ UNCHANGED <<session, pool, entity, result>>
       ELSE /\ Execute
            /\ entity' = SessionGet(entity.id)
            /\ result' = ProductResult(SessionGet(entity.id))
            /\ pc' = "use_case_exit"
            /\ UNCHANGED exc
  /\ UNCHANGED <<store, nextId, columnsNotNull, nRequests, req, client, sessionArg,
                 status, created, updatedIds, deletedIds, seen>>

\* An update that copies the primary key of the use-case's product as well.
UpdateAssignWithId(existing_product, product) ==
  [existing_product EXCEPT !.id = product.id,
                           !.name = product.name,
                           !.description = product.description,
                           !.price = product.price]

\* ProductRepository.update_product, the three assignments: every column of
\* the loaded row takes the attribute of the product the use-case built.
UpdateAssign(existing_product, product) ==
  [existing_product EXCEPT !.name = product.name,
                           !.description = product.description,
                           !.price = product.price]

\* ProductRepository.update_product up to its commit.
UpdateLoad ==
  /\ pc = "repository"
  /\ req.op = "update_product"
  /\ IF ~CanCheckout
       THEN /\ Raise("TimeoutError")
            /\ UNCHANGED <<session, pool, entity, result, seen>>
       ELSE /\ Execute
            /\ seen' = Seen(req.product_id)
            /\ UNCHANGED exc
            /\ IF SessionGet(req.product_id) = NoProduct
                 THEN /\ result' = AbsentResult
                      /\ pc' = "use_case_exit"
                      /\ UNCHANGED entity
                 ELSE /\ entity' = UpdateAssign(SessionGet(req.product_id), entity)
                      /\ pc' = "commit"
                      /\ UNCHANGED result
  /\ UNCHANGED <<store, nextId, columnsNotNull, nRequests, req, client, sessionArg,
                 status, created, updatedIds, deletedIds>>

\* The table after the UPDATE of the row with p's primary key.
UpdatedStore(p) == {IF q.id = p.id THEN p ELSE q : q \in store}

\* ProductRepository.update_product: session.commit() flushes the UPDATE. A
\* NULL in a NOT NULL column raises IntegrityError.
UpdateCommit ==
  /\ pc = "commit"
  /\ req.op = "update_product"
  /\ IF columnsNotNull /\ HasNull(entity)
       THEN /\ Raise("IntegrityError")
            /\ UNCHANGED <<store, session, pool, updatedIds>>
       ELSE /\ store' = UpdatedStore(entity)
            /\ updatedIds' = updatedIds \cup {entity.id}
            /\ Commit
            /\ pc' = "refresh"
            /\ UNCHANGED exc
  /\ UNCHANGED <<nextId, columnsNotNull, nRequests, req, client, sessionArg, entity,
                 result, status, created, deletedIds, seen>>

\* ProductRepository.delete_product up to session.delete(product).
DeleteLoad ==
  /\ pc = "repository"
  /\ req.op = "delete_product"
  /\ IF ~CanCheckout
       THEN /\ Raise("TimeoutError")
            /\ UNCHANGED <<session, pool, entity, result, seen>>
       ELSE /\ Execute
            /\ seen' = Seen(req.product_id)
            /\ UNCHANGED exc
            /\ IF SessionGet(req.product_id) = NoProduct
                 THEN /\ result' = BoolResult(FALSE)
                      /\ pc' = "use_case_exit"
                      /\ UNCHANGED entity
                 ELSE /\ entity' = SessionGet(req.product_id)
                      /\ pc' = "commit"
                      /\ UNCHANGED result
  /\ UNCHANGED <<store, nextId, columnsNotNull, nRequests, req, client, sessionArg,
                 status, created, updatedIds, deletedIds>>

\* A delete that never marks the instance for deletion.
DeletedStoreKeepsRow(product_id) == store

\* The table after the DELETE of the row with that primary key.
DeletedStore(product_id) == {q \in store : q.id # product_id}

\* ProductRepository.delete_product: session.commit() flushes the DELETE and
\* the repository returns True.
DeleteCommit ==
  /\ pc = "commit"
  /\ req.op = "delete_product"
  /\ store' = DeletedStore(entity.id)
  /\ deletedIds' = deletedIds \cup {entity.id}
  /\ Commit
  /\ result' = BoolResult(TRUE)
  /\ pc' = "use_case_exit"
  /\ UNCHANGED <<nextId, columnsNotNull, nRequests, req, client, sessionArg, entity,
                 exc, status, created, updatedIds, seen>>

\* The storage engine fails a statement or a commit (transport error, dropped
\* connection): the driver raises, nothing of the unit of work is stored.
StorageFault ==
  /\ pc \in {"repository", "commit", "refresh"}
  /\ Raise("OperationalError")
  /\ UNCHANGED <<store, nextId, columnsNotNull, nRequests, pool, req, client, session,
                 sessionArg, entity, result, status, created, updatedIds,
                 deletedIds, seen>>

\* End of the use-case's `async with session:` block, on return and on an
\* exception alike: AsyncSession.__aexit__ closes the session.
UseCaseExit ==
  /\ pc = "use_case_exit"
  /\ session' = SessionClose(session)
  /\ pool' = PoolAfter(SessionClose(session))
  /\ pc' = "handler"
  /\ UNCHANGED <<store, nextId, columnsNotNull, nRequests, req, client, sessionArg,
                 entity, result, exc, status, created, updatedIds, deletedIds, seen>>

\* The status a route answers with when the use-case returned: 404 through
\* HTTPException for a falsy result of get/update/delete, else the route's
\* success status.
RouteStatus(op, res) ==
  IF op \in {"get_product", "update_product"} /\ res.kind = "absent" THEN 404
  ELSE IF op = "delete_product" /\ ~res.flag THEN 404
  ELSE IF op = "create_product" THEN 201
  ELSE IF op = "delete_product" THEN 204
  ELSE 200

\* The route handlers of product.api after the use-case call. An exception
\* of the use-case is not caught; an HTTPException raised here and any other
\* exception both reach get_session at its yield.
Handler ==
  /\ pc = "handler"
  /\ IF exc # "none"
       THEN /\ pc' = "except"
            /\ UNCHANGED <<exc, status>>
       ELSE /\ status' = RouteStatus(req.op, result)
            /\ exc' = IF RouteStatus(req.op, result) = 404 THEN "HTTPException" ELSE "none"
            /\ pc' = IF RouteStatus(req.op, result) = 404 THEN "except" ELSE "finally"
  /\ UNCHANGED <<store, nextId, columnsNotNull, nRequests, pool, req, client, session,
                 sessionArg, entity, result, created, updatedIds, deletedIds, seen>>

\* DatabaseClient.session, `except Exception: await session.rollback(); raise`
SessionExcept ==
  /\ pc = "except"
  /\ session' = SessionRollback(session)
  /\ pool' = PoolAfter(SessionRollback(session))
  /\ pc' = "finally"
  /\ UNCHANGED <<store, nextId, columnsNotNull, nRequests, req, client, sessionArg,
                 entity, result, exc, status, created, updatedIds, deletedIds, seen>>

\* The status of the response once the exception, if any, left get_session:
\* the HTTPException carries its own, any other exception is a 500.
ResponseStatus(e, st) ==
  IF e = "none" \/ e = "HTTPException" THEN st ELSE 500

\* DatabaseClient.session, `finally: await session.close()`; the response
\* goes out.
SessionFinally ==
  /\ pc = "finally"
  /\ session' = SessionClose(session)
  /\ pool' = PoolAfter(SessionClose(session))
  /\ status' = ResponseStatus(exc, status)
  /\ pc' = "done"
  /\ UNCHANGED <<store, nextId, columnsNotNull, nRequests, req, client, sessionArg,
                 entity, result, exc, created, updatedIds, deletedIds, seen>>

Next ==
    \/ Request
    \/ UseCaseEnter
    \/ GetProduct
    \/ GetProducts
    \/ CreateProduct
    \/ Refresh
    \/ UpdateLoad
    \/ UpdateCommit
    \/ DeleteLoad
    \/ DeleteCommit
    \/ StorageFault
    \/ UseCaseExit
    \/ Handler
    \/ SessionExcept
    \/ SessionFinally

Spec == Init /\ [][Next]_vars

TypeOK ==
  /\ store \subseteq [id : 1..MaxRequests, name : {None} \cup {Some(n) : n \in Names},
                      description : {None} \cup {Some(d) : d \in Descriptions},
                      price : {None} \cup {Some(p) : p \in Prices}]
  /\ session.closes \in 0..2


\* ================================================================ claims
\* The use-case call of the request returned a value (nothing was raised).
Returned == result.kind # "none"

\* The row stored under an id, NoProduct if none.
Stored(id) ==
  IF id \in StoredIds THEN CHOOSE p \in store : p.id = id ELSE NoProduct

\* The payload a committed create stored under an id.
CreatedAs(id) == (CHOOSE c \in created : c.id = id).create

\* Faults of the storage engine itself, which no layer of the service handles.
StorageFaults == {"OperationalError", "TimeoutError", "IntegrityError"}

\* C1: after an update with a payload that sets the fields S succeeded, the
\* stored product has the payload's value in every field of S and the value
\* it had before in every other field.
C1_PartialUpdate ==
  (req.op = "update_product" /\ Returned /\ result.kind = "product")
    => \A f \in Fields :
         Stored(req.product_id)[f] =
           IF f \in req.data.fields_set THEN req.data[f] ELSE seen.row[f]

\* C2: create_product returns a product whose id the storage generated and
\* whose fields are the payload's; get_product on the id of a created product
\* that was neither updated nor deleted since returns the payload's name,
\* description and price.
C2_CreateGetRoundTrip ==
  /\ (req.op = "create_product" /\ Returned /\ result.kind = "product")
       => /\ result.product.id \in 1..(nextId - 1)
          /\ result.product.id \in CreatedIds
          /\ result.product = Product(result.product.id, Some(req.create.name),
                                      Some(req.create.description),
                                      Some(req.create.price))
  /\ (req.op = "get_product" /\ Returned
      /\ req.product_id \in CreatedIds /\ seen.untouched)
       => /\ result.kind = "product"
          /\ result.product.id = req.product_id
          /\ result.product.name = Some(CreatedAs(req.product_id).name)
          /\ result.product.description = Some(CreatedAs(req.product_id).description)
          /\ result.product.price = Some(CreatedAs(req.product_id).price)

\* A get_product fetched a product that an earlier create_product stored,
\* while a second product is stored too.
C2_Witness ==
  /\ pc = "done" /\ req.op = "get_product" /\ result.kind = "product"
  /\ req.product_id \in CreatedIds /\ seen.untouched
  /\ Cardinality(store) = 2

\* C3: delete_product on a stored id returns true and removes the row, and a
\* later get_product of that id returns absence; delete_product on an id that
\* is not stored returns false and leaves the table as it was.
C3_Delete ==
  /\ (req.op = "delete_product" /\ Returned /\ result.kind = "bool" /\ seen.stored)
       => /\ result.flag
          /\ req.product_id \notin StoredIds
          /\ store = {p \in seen.store : p.id # req.product_id}
  /\ (req.op = "delete_product" /\ Returned /\ result.kind = "bool" /\ ~seen.stored)
       => /\ ~result.flag
          /\ store = seen.store
  /\ (req.op = "get_product" /\ Returned /\ req.product_id \in deletedIds)
       => result.kind = "absent"

\* A get_product of an id that a delete_product removed answered absence.
C3_Witness ==
  /\ pc = "done" /\ req.op = "get_product" /\ req.product_id \in deletedIds
  /\ req.product_id \in CreatedIds /\ result.kind = "absent" /\ status = 404

\* C4: get_product of an id with no row returns the absence marker and does
\* not end in a fault; the route answers 404, not a 5xx, and the table is
\* unchanged.
C4_AbsentIs404 ==
  (pc = "done" /\ req.op = "get_product" /\ req.product_id \notin StoredIds
   /\ exc \notin StorageFaults)
    => /\ result.kind = "absent"
       /\ status = 404

\* C5: get_products returns exactly the products created and not deleted:
\* one entry per such id, as many entries as creates less deletes, each with
\* its own id, and each product no update touched as it was created.
C5_ListIsCreatedNotDeleted ==
  (req.op = "get_products" /\ Returned /\ result.kind = "list")
    => /\ {p.id : p \in result.products} = seen.live
       /\ Cardinality(result.products) = Cardinality(created) - Cardinality(deletedIds)
       /\ Cardinality({p.id : p \in result.products}) = Cardinality(result.products)
       /\ \A p \in result.products :
            p.id \notin updatedIds
              => p = Product(p.id, Some(CreatedAs(p.id).name),
                             Some(CreatedAs(p.id).description),
                             Some(CreatedAs(p.id).price))

\* get_products listed two created products.
C5_Witness ==
  /\ pc = "done" /\ req.op = "get_products" /\ result.kind = "list"
  /\ Cardinality(result.products) = 2 /\ deletedIds = {}

C8_UseCaseGetsProvisionedSession ==
  pc \in {"use_case", "repository", "commit", "refresh", "use_case_exit"}
    => sessionArg = session.id

\* C9: no step of an update_product changes the set of stored ids or any row
\* but the one it addresses, and the product it returns carries that id.
C9_IdImmutable ==
  [][ (req.op = "update_product" /\ pc # "done")
        => /\ StoredIds' = StoredIds
           /\ \A q \in store : q.id # req.product_id => q \in store'
           /\ result'.kind = "product" => result'.product.id = req.product_id ]_vars

\* An update_product succeeded while a product it does not address is stored.
C9_Witness ==
  /\ pc = "done" /\ req.op = "update_product" /\ result.kind = "product"
  /\ \E q \in store : q.id # req.product_id

\* The connections checked out of all pools together.
RECURSIVE SumFrom(_, _)
SumFrom(s, i) == IF i > Len(s) THEN 0 ELSE s[i] + SumFrom(s, i + 1)
CheckedOut == SumFrom(pool, 1)

\* C10: all requests draw their connections from one shared pool, and never
\* more than pool_size + max_overflow connections are checked out.
C10_OneSharedBoundedPool ==
  /\ Len(pool) <= 1
  /\ CheckedOut <= pool_size + max_overflow

====
